---- MODULE Spec2Model ----
(***************************************************************************)
(* A model of the MySQL scanner's catalog mirror (MySQLCatalogSet), its    *)
(* connection-parameter parser and connector (MySQLUtils) and its outbound *)
(* type mapping (MySQLUtils::ToMySQLType).                                 *)
(*                                                                         *)
(* Strings are sequences of one-character strings, so that case folding,   *)
(* tokenising and number parsing are computed character by character.      *)
(***************************************************************************)
EXTENDS Integers, Sequences, FiniteSets, TLC

\* ------------------------------------------------------------------ bounds
\* Number of client threads that call into one mirror.
NumThreads == 2
\* Number of public calls made on the mirror in one behaviour.
MaxCalls == 4

Threads == 1..NumThreads
NoThread == 0

\* ------------------------------------------------------------ strings
\* StringUtil::Lower on one character (the letters the model uses).
LowerChar(c) ==
    CASE c = "A" -> "a"
      [] c = "B" -> "b"
      [] c = "C" -> "c"
      [] c = "D" -> "d"
      [] c = "E" -> "e"
      [] c = "H" -> "h"
      [] c = "O" -> "o"
      [] c = "P" -> "p"
      [] c = "R" -> "r"
      [] c = "S" -> "s"
      [] c = "T" -> "t"
      [] c = "U" -> "u"
      [] OTHER -> c

\* StringUtil::Lower
Lower(s) == [i \in 1..Len(s) |-> LowerChar(s[i])]

\* ------------------------------------------------------ catalog mirror
\* The entry names the callers use: three spellings of one name, and another.
EntryNames == { <<"a", "b">>, <<"A", "b">>, <<"A", "B">>, <<"c">> }
EmptyName == << >>

\* What LoadEntries finds in the remote schema, in the order it creates it.
Discovered == << <<"a", "b">>, <<"c">> >>

\* What a call returns is a set of entries: the entry GetEntry or CreateEntry
\* returns (none for nullptr), the entries Scan visited.
NoEntry == {}

VARIABLES
    is_loaded,    \* MySQLCatalogSet::is_loaded
    entries,      \* MySQLCatalogSet::entries: the names (keys) of the stored entries
    entry_map,    \* MySQLCatalogSet::entry_map: the stored canonical names, keyed case-insensitively
    entry_lock,   \* MySQLCatalogSet::entry_lock: the thread that holds it, or NoThread
    entries_ci,   \* whether entries compares its keys case-insensitively (fixed per build)
    pc,           \* per thread: where it is in its current call
    op,           \* per thread: the call it is in, "none" when idle
    arg,          \* per thread: the name argument of that call
    ret,          \* the call that returned last: its operation, argument, value, and whether it threw
    loadPos,      \* per thread: the next element of Discovered that its LoadEntries creates
    calls,        \* number of calls made so far
    loads,        \* number of LoadEntries invocations since the last ClearEntries completed
    hist          \* which events have happened so far: "create", "drop", "clear" ("clear_loaded" on a loaded mirror), "loadfail"

mvars == << is_loaded, entries, entry_map, entry_lock, entries_ci, pc, op, arg,
            ret, loadPos, calls, loads, hist >>

\* case_insensitive_map_t::find: the stored keys that equal name case-insensitively
CIFind(m, name) == { e \in m : Lower(e) = Lower(name) }

\* entry_map.insert(make_pair(name, name)): no effect when the key is present
MapInsert(m, name) == IF CIFind(m, name) # {} THEN m ELSE m \cup {name}

\* entries.find(name)
EntriesFind(es, ci, name) == IF ci THEN CIFind(es, name) ELSE { e \in es : e = name }

\* entries.insert(make_pair(name, entry)): no effect when the key is present
EntriesInsert(es, ci, name) == IF EntriesFind(es, ci, name) # {} THEN es ELSE es \cup {name}

\* entries.erase(name)
EntriesErase(es, ci, name) == es \ EntriesFind(es, ci, name)

\* The body of GetEntry under the lock: the entry it returns, or NoEntry.
Lookup(es, m, ci, name) ==
    LET entry == EntriesFind(es, ci, name) IN
    IF entry # {}
    THEN entry
    ELSE LET name_entry == CIFind(m, name) IN
         IF name_entry = {}
         THEN NoEntry
         ELSE LET again == EntriesFind(es, ci, CHOOSE n \in name_entry : TRUE) IN
              IF again = {} THEN NoEntry ELSE again

MirrorInit ==
    /\ is_loaded = FALSE
    /\ entries = {}
    /\ entry_map = {}
    /\ entry_lock = NoThread
    /\ entries_ci \in BOOLEAN
    /\ pc = [t \in Threads |-> "idle"]
    /\ op = [t \in Threads |-> "none"]
    /\ arg = [t \in Threads |-> EmptyName]
    /\ ret = [op |-> "none", arg |-> EmptyName, val |-> {}, thrown |-> FALSE]
    /\ loadPos = [t \in Threads |-> 1]
    /\ calls = 0
    /\ loads = 0
    /\ hist = {}

\* A thread starts a call.
Begin(t) ==
    /\ pc[t] = "idle"
    /\ calls < MaxCalls
    /\ calls' = calls + 1

\* The call goes on at `where`.
Enter(t, o, name, where) ==
    /\ Begin(t)
    /\ op' = [op EXCEPT ![t] = o]
    /\ arg' = [arg EXCEPT ![t] = name]
    /\ pc' = [pc EXCEPT ![t] = where]
    /\ UNCHANGED ret

\* The call of thread t returns val.
Return(t, val) ==
    /\ ret' = [op |-> op[t], arg |-> arg[t], val |-> val, thrown |-> FALSE]
    /\ pc' = [pc EXCEPT ![t] = "idle"]
    /\ op' = [op EXCEPT ![t] = "none"]
    /\ arg' = [arg EXCEPT ![t] = EmptyName]

\* The call of thread t ends with an exception.
Throw(t) ==
    /\ ret' = [op |-> op[t], arg |-> arg[t], val |-> {}, thrown |-> TRUE]
    /\ pc' = [pc EXCEPT ![t] = "idle"]
    /\ op' = [op EXCEPT ![t] = "none"]
    /\ arg' = [arg EXCEPT ![t] = EmptyName]

\* GetEntry, line 10: the unguarded read of is_loaded.
GetEntry(t, name) ==
    /\ Enter(t, "GetEntry", name, IF is_loaded THEN "lock" ELSE "set_loaded")
    /\ UNCHANGED << is_loaded, entries, entry_map, entry_lock, entries_ci, loadPos, loads, hist >>

\* Scan, line 55: the unguarded read of is_loaded.
Scan(t) ==
    /\ Enter(t, "Scan", EmptyName, IF is_loaded THEN "lock" ELSE "set_loaded")
    /\ UNCHANGED << is_loaded, entries, entry_map, entry_lock, entries_ci, loadPos, loads, hist >>

\* A GetEntry or Scan that enters LoadEntries without setting the flag first.
SetLoadedSkipsFlag(t) ==
    /\ pc[t] = "set_loaded"
    /\ loads' = loads + 1
    /\ pc' = [pc EXCEPT ![t] = "load"]
    /\ UNCHANGED << is_loaded, entries, entry_map, entry_lock, entries_ci, op, arg, ret, loadPos, calls, hist >>

\* Lines 11-12 and 56-57: set the flag, then enter LoadEntries.
SetLoaded(t) ==
    /\ pc[t] = "set_loaded"
    /\ is_loaded' = TRUE
    /\ loads' = loads + 1
    /\ pc' = [pc EXCEPT ![t] = "load"]
    /\ UNCHANGED << entries, entry_map, entry_lock, entries_ci, op, arg, ret, loadPos, calls, hist >>

\* LoadEntries creates the next discovered entry: CreateEntry takes the lock
\* and inserts the name into entry_map (lines 66-71).
LoadCreate(t) ==
    /\ pc[t] = "load"
    /\ entry_lock = NoThread
    /\ entry_lock' = t
    /\ entry_map' = MapInsert(entry_map, Discovered[loadPos[t]])
    /\ pc' = [pc EXCEPT ![t] = "load_entries"]
    /\ UNCHANGED << is_loaded, entries, entries_ci, op, arg, ret, loadPos, calls, loads, hist >>

\* ... and inserts the entry into entries and releases the lock (lines 72-74);
\* after the last one LoadEntries returns to line 14 or 59.
LoadCreate2(t) ==
    /\ pc[t] = "load_entries"
    /\ entries' = EntriesInsert(entries, entries_ci, Discovered[loadPos[t]])
    /\ entry_lock' = NoThread
    /\ loadPos' = [loadPos EXCEPT ![t] = IF loadPos[t] = Len(Discovered) THEN 1 ELSE loadPos[t] + 1]
    /\ pc' = [pc EXCEPT ![t] = IF loadPos[t] = Len(Discovered) THEN "lock" ELSE "load"]
    /\ UNCHANGED << is_loaded, entry_map, entries_ci, op, arg, ret, calls, loads, hist >>

\* LoadEntries throws (the remote query fails): the exception leaves GetEntry or Scan.
LoadThrows(t) ==
    /\ pc[t] = "load"
    /\ Throw(t)
    /\ loadPos' = [loadPos EXCEPT ![t] = 1]
    /\ hist' = hist \cup {"loadfail"}
    /\ UNCHANGED << is_loaded, entries, entry_map, entry_lock, entries_ci, calls, loads >>

\* GetEntry, lines 14-31: the lookup under the lock.
GetEntryFind(t) ==
    /\ pc[t] = "lock"
    /\ op[t] = "GetEntry"
    /\ entry_lock = NoThread
    /\ Return(t, Lookup(entries, entry_map, entries_ci, arg[t]))
    /\ UNCHANGED << is_loaded, entries, entry_map, entry_lock, entries_ci, loadPos, calls, loads, hist >>

\* Whether a ClearEntries is part-way through its three unguarded writes.
ClearInFlight == \E u \in Threads : pc[u] \in {"clear_entries", "clear_loaded"}

\* Scan, lines 59-62: the iteration under the lock; the value is the set of
\* entries the callback saw.  Iterating while an unguarded ClearEntries is at
\* work is a data race, and the callback may then see any part of the entries.
ScanVisit(t) ==
    /\ pc[t] = "lock"
    /\ op[t] = "Scan"
    /\ entry_lock = NoThread
    /\ \E seen \in (IF ClearInFlight THEN SUBSET entries ELSE {entries}) : Return(t, seen)
    /\ UNCHANGED << is_loaded, entries, entry_map, entry_lock, entries_ci, loadPos, calls, loads, hist >>

\* CreateEntry with an empty name: lines 66-69, the InternalException.
CreateEntryEmpty(t) ==
    /\ Begin(t)
    /\ entry_lock = NoThread
    /\ ret' = [op |-> "CreateEntry", arg |-> EmptyName, val |-> {}, thrown |-> TRUE]
    /\ UNCHANGED << is_loaded, entries, entry_map, entry_lock, entries_ci, pc, op, arg, loadPos, loads, hist >>

\* CreateEntry, lines 66-71: take the lock, insert into entry_map.
CreateEntry(t, name) ==
    /\ name # EmptyName
    /\ entry_lock = NoThread
    /\ Enter(t, "CreateEntry", name, "create_entries")
    /\ entry_lock' = t
    /\ entry_map' = MapInsert(entry_map, name)
    /\ hist' = hist \cup {"create"}
    /\ UNCHANGED << is_loaded, entries, entries_ci, loadPos, loads >>

\* CreateEntry, lines 72-74: insert into entries, release the lock, return the entry.
CreateEntry2(t) ==
    /\ pc[t] = "create_entries"
    /\ entries' = EntriesInsert(entries, entries_ci, arg[t])
    /\ entry_lock' = NoThread
    /\ Return(t, {arg[t]})
    /\ UNCHANGED << is_loaded, entry_map, entries_ci, loadPos, calls, loads, hist >>

\* A DropEntry that erases the local entry before it issues the remote statement.
DropEntryErasesBeforeQuery(t, name) ==
    /\ Begin(t)
    /\ entries' = EntriesErase(entries, entries_ci, name)
    /\ ret' = [op |-> "DropEntry", arg |-> name, val |-> {}, thrown |-> TRUE]
    /\ UNCHANGED << is_loaded, entry_map, entry_lock, entries_ci, pc, op, arg, loadPos, loads, hist >>

\* DropEntry, lines 35-47, when transaction.Query throws: the exception leaves
\* DropEntry before line 50.
DropEntryQueryFails(t, name) ==
    /\ Begin(t)
    /\ ret' = [op |-> "DropEntry", arg |-> name, val |-> {}, thrown |-> TRUE]
    /\ UNCHANGED << is_loaded, entries, entry_map, entry_lock, entries_ci, pc, op, arg, loadPos, loads, hist >>

\* DropEntry, lines 35-47, when the remote statement succeeds.
DropEntryQuery(t, name) ==
    /\ Enter(t, "DropEntry", name, "drop_erase")
    /\ hist' = hist \cup {"drop"}
    /\ UNCHANGED << is_loaded, entries, entry_map, entry_lock, entries_ci, loadPos, loads >>

\* DropEntry, lines 50-51: erase from entries under the lock.
DropEntryErase(t) ==
    /\ pc[t] = "drop_erase"
    /\ entry_lock = NoThread
    /\ entries' = EntriesErase(entries, entries_ci, arg[t])
    /\ Return(t, {})
    /\ UNCHANGED << is_loaded, entry_map, entry_lock, entries_ci, loadPos, calls, loads, hist >>

\* ClearEntries, line 77: entry_map.clear(), with no lock taken.
ClearEntries(t) ==
    /\ Enter(t, "ClearEntries", EmptyName, "clear_entries")
    /\ entry_map' = {}
    /\ hist' = hist \cup (IF is_loaded THEN {"clear", "clear_loaded"} ELSE {"clear"})
    /\ UNCHANGED << is_loaded, entries, entry_lock, entries_ci, loadPos, loads >>

\* ClearEntries, line 78: entries.clear().
ClearEntries2(t) ==
    /\ pc[t] = "clear_entries"
    /\ entries' = {}
    /\ pc' = [pc EXCEPT ![t] = "clear_loaded"]
    /\ UNCHANGED << is_loaded, entry_map, entry_lock, entries_ci, op, arg, ret, loadPos, calls, loads, hist >>

\* A ClearEntries that leaves is_loaded as it is.
ClearEntriesKeepsLoaded(t) ==
    /\ pc[t] = "clear_loaded"
    /\ loads' = 0
    /\ Return(t, {})
    /\ UNCHANGED << is_loaded, entries, entry_map, entry_lock, entries_ci, loadPos, calls, hist >>

\* ClearEntries, line 79: is_loaded = false.
ClearEntries3(t) ==
    /\ pc[t] = "clear_loaded"
    /\ is_loaded' = FALSE
    /\ loads' = 0
    /\ Return(t, {})
    /\ UNCHANGED << entries, entry_map, entry_lock, entries_ci, loadPos, calls, hist >>

\* One step of thread t.
Step(t) ==
    \/ \E name \in EntryNames : GetEntry(t, name)
    \/ Scan(t)
    \/ SetLoaded(t)
    \/ LoadCreate(t)
    \/ LoadCreate2(t)
    \/ LoadThrows(t)
    \/ GetEntryFind(t)
    \/ ScanVisit(t)
    \/ CreateEntryEmpty(t)
    \/ \E name \in EntryNames : CreateEntry(t, name)
    \/ CreateEntry2(t)
    \/ \E name \in EntryNames : DropEntryQueryFails(t, name)
    \/ \E name \in EntryNames : DropEntryQuery(t, name)
    \/ DropEntryErase(t)
    \/ ClearEntries(t)
    \/ ClearEntries2(t)
    \/ ClearEntries3(t)

\* ------------------------------------------- connection parameters: text
\* Number of key=value pairs in a DSN.
MaxPairs == 2

QuoteChar == "\""
Backslash == "\\"
Digits == <<"0", "1", "2", "3", "4", "5", "6", "7", "8", "9">>

\* StringUtil::CharacterIsSpace
CharacterIsSpace(c) == c \in {" ", "\t", "\n"}

IsDigit(c) == \E i \in 1..10 : Digits[i] = c
DigitValue(c) == (CHOOSE i \in 1..10 : Digits[i] = c) - 1

\* ParseValue, lines 9-11: skip leading spaces.
RECURSIVE SkipSpaces(_, _)
SkipSpaces(dsn, pos) ==
    IF pos <= Len(dsn) /\ CharacterIsSpace(dsn[pos]) THEN SkipSpaces(dsn, pos + 1) ELSE pos

\* ParseValue, lines 16-42: a quoted value, from the character after the quote.
RECURSIVE ScanQuoted(_, _, _)
ScanQuoted(dsn, pos, acc) ==
    IF pos > Len(dsn)
    THEN [st |-> "InvalidInput", pos |-> pos, val |-> acc]       \* unterminated quote
    ELSE IF dsn[pos] = QuoteChar
    THEN [st |-> "ok", pos |-> pos + 1, val |-> acc]
    ELSE IF dsn[pos] = Backslash
    THEN IF pos + 1 > Len(dsn)
         THEN [st |-> "InvalidInput", pos |-> pos, val |-> acc]  \* backslash at end of dsn
         ELSE IF dsn[pos + 1] # Backslash /\ dsn[pos + 1] # QuoteChar
         THEN [st |-> "InvalidInput", pos |-> pos, val |-> acc]  \* can only escape \ or "
         ELSE ScanQuoted(dsn, pos + 2, Append(acc, dsn[pos + 1]))
    ELSE ScanQuoted(dsn, pos + 1, Append(acc, dsn[pos]))

\* ParseValue, lines 44-53: an unquoted value runs to a space, an = or the end.
RECURSIVE ScanUnquoted(_, _, _)
ScanUnquoted(dsn, pos, acc) ==
    IF pos > Len(dsn) \/ dsn[pos] = "=" \/ CharacterIsSpace(dsn[pos])
    THEN [st |-> "ok", pos |-> pos, val |-> acc]
    ELSE ScanUnquoted(dsn, pos + 1, Append(acc, dsn[pos]))

\* ParseValue: st is "ok" (true), "eof" (false) or "InvalidInput" (thrown);
\* positions count from 1.
ParseValue(dsn, pos0) ==
    LET pos == SkipSpaces(dsn, pos0) IN
    IF pos > Len(dsn)
    THEN [st |-> "eof", pos |-> pos, val |-> << >>]
    ELSE IF dsn[pos] = QuoteChar
    THEN ScanQuoted(dsn, pos + 1, << >>)
    ELSE ScanUnquoted(dsn, pos, << >>)

PORT_MIN == 0
PORT_MAX == 65353
INT_MAX == 2147483647

\* std::stoi on the digits from pos on: the digits stop at the first other
\* character; a value that does not fit an int is out of range.
RECURSIVE StoiDigits(_, _, _, _)
StoiDigits(value, pos, acc, negative) ==
    IF pos > Len(value) \/ ~IsDigit(value[pos])
    THEN [st |-> "ok", n |-> IF negative THEN 0 - acc ELSE acc]
    ELSE LET d == DigitValue(value[pos]) IN
         IF acc > INT_MAX \div 10
            \/ (acc = INT_MAX \div 10 /\ d > (IF negative THEN 8 ELSE 7))
         THEN [st |-> "out_of_range", n |-> 0]
         ELSE StoiDigits(value, pos + 1, acc * 10 + d, negative)

\* std::stoi: leading spaces, an optional sign, then at least one digit.
Stoi(value) ==
    LET p == SkipSpaces(value, 1)
        signed == p <= Len(value) /\ value[p] \in {"-", "+"}
        q == IF signed THEN p + 1 ELSE p
    IN  IF q > Len(value) \/ ~IsDigit(value[q])
        THEN [st |-> "invalid_argument", n |-> 0]
        ELSE StoiDigits(value, q, 0, signed /\ value[p] = "-")

\* ParsePort: st is "ok", "InvalidInput" (out of the port range), or std::stoi's exception.
ParsePort(value) ==
    LET port_val == Stoi(value) IN
    IF port_val.st # "ok" THEN port_val
    ELSE IF port_val.n < PORT_MIN \/ port_val.n > PORT_MAX
    THEN [st |-> "InvalidInput", n |-> port_val.n]
    ELSE port_val

\* The words of a DSN.
W_host == <<"h", "o", "s", "t">>
W_user == <<"u", "s", "e", "r">>
W_passwd == <<"p", "a", "s", "s", "w", "d">>
W_password == <<"p", "a", "s", "s", "w", "o", "r", "d">>
W_db == <<"d", "b">>
W_database == <<"d", "a", "t", "a", "b", "a", "s", "e">>
W_port == <<"p", "o", "r", "t">>
W_socket == <<"s", "o", "c", "k", "e", "t">>
W_unix_socket == <<"u", "n", "i", "x", "_">> \o W_socket
W_workload == <<"w", "o", "r", "k", "l", "o", "a", "d">>
W_localhost == <<"l", "o", "c", "a", "l", "h", "o", "s", "t">>
W_loopback == <<"1", "2", "7", ".", "0", ".", "0", ".", "1">>

\* MySQLConnectionParameters as constructed (line 79), with the set_options of line 81.
DefaultParameters ==
    [st |-> "ok", host |-> << >>, user |-> << >>, passwd |-> << >>, db |-> << >>,
     port |-> 0, unix_socket |-> << >>, workload |-> << >>, set_options |-> {}]

\* Lines 97-123: one key=value pair applied to the result.
SetOption(result, rawkey, value) ==
    LET key == Lower(rawkey) IN
    IF key = W_host
    THEN [result EXCEPT !.host = value, !.set_options = @ \cup {"host"}]
    ELSE IF key = W_user
    THEN [result EXCEPT !.user = value, !.set_options = @ \cup {"user"}]
    ELSE IF key = W_passwd \/ key = W_password
    THEN [result EXCEPT !.passwd = value, !.set_options = @ \cup {"password"}]
    ELSE IF key = W_db \/ key = W_database
    THEN [result EXCEPT !.db = value, !.set_options = @ \cup {"database"}]
    ELSE IF key = W_port
    THEN LET port == ParsePort(value) IN
         IF port.st = "ok"
         THEN [result EXCEPT !.port = port.n, !.set_options = @ \cup {"port"}]
         ELSE [result EXCEPT !.st = port.st, !.set_options = @ \cup {"port"}]
    ELSE IF key = W_socket \/ key = W_unix_socket
    THEN [result EXCEPT !.unix_socket = value, !.set_options = @ \cup {"socket"}]
    ELSE IF key = W_workload
    THEN [result EXCEPT !.workload = value, !.set_options = @ \cup {"workload"}]
    ELSE [result EXCEPT !.st = "InvalidInput"]                   \* unrecognized parameter

\* Lines 83-124: the loop over the key=value pairs of the DSN.
RECURSIVE ParseOptions(_, _, _)
ParseOptions(dsn, pos, result) ==
    IF pos > Len(dsn) THEN result
    ELSE LET key == ParseValue(dsn, pos) IN
         IF key.st = "eof" THEN result
         ELSE IF key.st # "ok" THEN [result EXCEPT !.st = key.st]
         ELSE IF key.pos > Len(dsn) \/ dsn[key.pos] # "="
         THEN [result EXCEPT !.st = "InvalidInput"]              \* expected key=value pairs
         ELSE LET value == ParseValue(dsn, key.pos + 1) IN
              IF value.st # "ok"
              THEN [result EXCEPT !.st = "InvalidInput"]
              ELSE LET next == SetOption(result, key.val, value.val) IN
                   IF next.st # "ok" THEN next ELSE ParseOptions(dsn, value.pos, next)

\* The environment: each variable is unset, or set to a text.
EnvVars == {"MYSQL_HOST", "MYSQL_PWD", "MYSQL_USER", "MYSQL_DATABASE", "MYSQL_UNIX_PORT", "MYSQL_TCP_PORT"}

\* ReadOptionFromEnv: the field, or the variable's value when it is set.
ReadOptionFromEnv(e, name, field) == IF e[name].set THEN e[name].val ELSE field

\* A ParseConnectionParameters that reads the environment for every field that is empty.
ReadEnvironmentWhenEmpty(result, e) ==
    IF result.st # "ok" THEN result
    ELSE LET port == IF result.port = 0 /\ e["MYSQL_TCP_PORT"].set
                     THEN ParsePort(e["MYSQL_TCP_PORT"].val)
                     ELSE [st |-> "ok", n |-> result.port]
         IN  [result EXCEPT
                 !.host = IF @ = << >> THEN ReadOptionFromEnv(e, "MYSQL_HOST", @) ELSE @,
                 !.passwd = IF @ = << >> THEN ReadOptionFromEnv(e, "MYSQL_PWD", @) ELSE @,
                 !.user = IF @ = << >> THEN ReadOptionFromEnv(e, "MYSQL_USER", @) ELSE @,
                 !.db = IF @ = << >> THEN ReadOptionFromEnv(e, "MYSQL_DATABASE", @) ELSE @,
                 !.unix_socket = IF @ = << >> THEN ReadOptionFromEnv(e, "MYSQL_UNIX_PORT", @) ELSE @,
                 !.port = IF port.st = "ok" THEN port.n ELSE @,
                 !.st = port.st]

\* Lines 125-147: the options that are not set are read from the environment.
ReadEnvironment(result, e) ==
    IF result.st # "ok" THEN result
    ELSE LET unset(o) == o \notin result.set_options
             port == IF unset("port") /\ e["MYSQL_TCP_PORT"].set
                     THEN ParsePort(e["MYSQL_TCP_PORT"].val)
                     ELSE [st |-> "ok", n |-> result.port]
         IN  [result EXCEPT
                 !.host = IF unset("host") THEN ReadOptionFromEnv(e, "MYSQL_HOST", @) ELSE @,
                 !.passwd = IF unset("password") THEN ReadOptionFromEnv(e, "MYSQL_PWD", @) ELSE @,
                 !.user = IF unset("user") THEN ReadOptionFromEnv(e, "MYSQL_USER", @) ELSE @,
                 !.db = IF unset("database") THEN ReadOptionFromEnv(e, "MYSQL_DATABASE", @) ELSE @,
                 !.unix_socket = IF unset("socket") THEN ReadOptionFromEnv(e, "MYSQL_UNIX_PORT", @) ELSE @,
                 !.port = IF port.st = "ok" THEN port.n ELSE @,
                 !.st = port.st]

\* ------------------------------------- connection parameters: the inputs
\* The decimal text of a number.
RECURSIVE Decimal(_)
Decimal(n) ==
    IF n < 0 THEN <<"-">> \o Decimal(0 - n)
    ELSE IF n < 10 THEN <<Digits[n + 1]>>
    ELSE Append(Decimal(n \div 10), Digits[(n % 10) + 1])

Pair(key, value) == key \o <<"=">> \o value
Quoted(text) == <<QuoteChar>> \o text \o <<QuoteChar>>

\* The port numbers the DSNs give.
DsnPorts == {0, 3306, 65353, 65354, 65535, 65536, -1, INT_MAX}

\* The well-formed key=value pairs the DSNs are made of: the text, the field
\* it sets, and the value it gives the field (val for a text, num for the port).
TextPairs ==
    { [text |-> Pair(W_host, <<"h">>), field |-> "host", val |-> <<"h">>, num |-> 0],
      [text |-> Pair(<<"H", "O", "S", "T">>, W_localhost), field |-> "host", val |-> W_localhost, num |-> 0],
      [text |-> Pair(W_host, Quoted(<< >>)), field |-> "host", val |-> << >>, num |-> 0],
      [text |-> Pair(W_user, <<"u">>), field |-> "user", val |-> <<"u">>, num |-> 0],
      [text |-> Pair(W_passwd, <<"p">>), field |-> "passwd", val |-> <<"p">>, num |-> 0],
      [text |-> Pair(W_password, Quoted(<<"a", Backslash, QuoteChar, "b">>)), field |-> "passwd",
       val |-> <<"a", QuoteChar, "b">>, num |-> 0],
      [text |-> Pair(W_db, <<"d">>), field |-> "db", val |-> <<"d">>, num |-> 0],
      [text |-> Pair(W_database, <<"e">>), field |-> "db", val |-> <<"e">>, num |-> 0],
      [text |-> Pair(W_socket, <<"s">>), field |-> "unix_socket", val |-> <<"s">>, num |-> 0],
      [text |-> Pair(W_unix_socket, <<"t">>), field |-> "unix_socket", val |-> <<"t">>, num |-> 0],
      [text |-> Pair(W_workload, <<"w">>), field |-> "workload", val |-> <<"w">>, num |-> 0] }

PortPairs == { [text |-> Pair(W_port, Decimal(n)), field |-> "port", val |-> << >>, num |-> n] : n \in DsnPorts }

\* Texts that are no key=value pair of a recognized key and an integer port.
BadPairs ==
    { [text |-> t, field |-> "none", val |-> << >>, num |-> 0] :
        t \in { Pair(W_port, <<"a", "b", "c">>),                        \* port=abc
                Pair(<<"x">>, <<"1">>),                                \* x=1
                W_host,                                                \* host
                Pair(W_host, << >>),                                   \* host=
                Pair(W_passwd, <<QuoteChar, "a">>),                    \* passwd="a
                Pair(W_passwd, <<QuoteChar, "a", Backslash>>),         \* passwd="a\
                Pair(W_passwd, Quoted(<<Backslash, "a">>)) } }         \* passwd="\a"

DsnPairs == TextPairs \cup PortPairs \cup BadPairs

Fields == {"host", "user", "passwd", "db", "unix_socket", "workload", "port"}

\* The environment variable that stands in for a field.
EnvOf(f) ==
    CASE f = "host" -> "MYSQL_HOST"
      [] f = "passwd" -> "MYSQL_PWD"
      [] f = "user" -> "MYSQL_USER"
      [] f = "db" -> "MYSQL_DATABASE"
      [] f = "unix_socket" -> "MYSQL_UNIX_PORT"
      [] f = "port" -> "MYSQL_TCP_PORT"

Unset == [set |-> FALSE, val |-> << >>, num |-> 0, numeric |-> FALSE]
SetText(v) == [set |-> TRUE, val |-> v, num |-> 0, numeric |-> FALSE]
SetNumber(n) == [set |-> TRUE, val |-> Decimal(n), num |-> n, numeric |-> TRUE]

\* What each environment variable holds when it is set.
EnvValues(v) ==
    CASE v = "MYSQL_HOST" -> {SetText(W_localhost)}
      [] v = "MYSQL_PWD" -> {SetText(<<"P">>)}
      [] v = "MYSQL_USER" -> {SetText(<<"U">>)}
      [] v = "MYSQL_DATABASE" -> {SetText(<<"D">>)}
      [] v = "MYSQL_UNIX_PORT" -> {SetText(<<"S">>)}
      [] v = "MYSQL_TCP_PORT" -> {SetNumber(3307), SetNumber(65400), SetNumber(65536), SetText(<<"a", "b", "c">>)}

NoEnv == [v \in EnvVars |-> Unset]

\* The environment in which only v is set, to x.
EnvOnly(v, x) == [u \in EnvVars |-> IF u = v THEN x ELSE Unset]

\* The environment in which every variable is set, the port to x.
EnvAll(x) == [u \in EnvVars |-> IF u = "MYSQL_TCP_PORT" THEN x ELSE CHOOSE y \in EnvValues(u) : TRUE]

\* The environments: nothing set, one variable set, or all of them set.
Envs ==
    {NoEnv}
        \cup UNION { { EnvOnly(v, x) : x \in EnvValues(v) } : v \in EnvVars }
        \cup { EnvAll(x) : x \in EnvValues("MYSQL_TCP_PORT") }

VARIABLES
    dsn,          \* the DSN text
    npairs,       \* the number of pairs it is made of
    given,        \* per field: whether the DSN sets it, and the last value it gives it
    portsOk,      \* whether every port number the DSN gives lies in 0..65535
    malformed,    \* whether the DSN holds a text of BadPairs
    env,          \* the environment, as ParseConnectionParameters reads it
    cpc,          \* where Connect is
    config,       \* Connect's config: the result of ParseConnectionParameters
    attempts      \* the mysql_real_connect calls made: host, db argument, success

cvars == << dsn, npairs, given, portsOk, malformed, env, cpc, config, attempts >>

ConnInit ==
    /\ dsn = << >>
    /\ npairs = 0
    /\ given = [f \in Fields |-> Unset]
    /\ portsOk = TRUE
    /\ malformed = FALSE
    /\ env = NoEnv
    /\ cpc = "dsn"
    /\ config = DefaultParameters
    /\ attempts = << >>

\* The caller writes one more pair into the DSN.
AddPair(p) ==
    /\ cpc = "dsn"
    /\ npairs < MaxPairs
    /\ npairs' = npairs + 1
    /\ dsn' = IF dsn = << >> THEN p.text ELSE dsn \o <<" ">> \o p.text
    /\ given' = IF p.field = "none" THEN given
                ELSE [given EXCEPT ![p.field] = [set |-> TRUE, val |-> p.val, num |-> p.num, numeric |-> p.field = "port"]]
    /\ portsOk' = (portsOk /\ (p.field = "port" => p.num \in 0..65535))
    /\ malformed' = (malformed \/ p.field = "none")
    /\ UNCHANGED << env, cpc, config, attempts >>

\* Connect, lines 151-154: mysql_init fails.
ConnectInitFails ==
    /\ cpc = "dsn"
    /\ cpc' = "failed_init"
    /\ UNCHANGED << dsn, npairs, given, portsOk, malformed, env, config, attempts >>

\* Connect, line 156: ParseConnectionParameters, lines 79-124.
ConnectParseOptions ==
    /\ cpc = "dsn"
    /\ config' = ParseOptions(dsn, 1, DefaultParameters)
    /\ cpc' = IF config'.st = "ok" THEN "env" ELSE "failed_parse"
    /\ UNCHANGED << dsn, npairs, given, portsOk, malformed, env, attempts >>

\* ParseConnectionParameters, lines 125-147, in the environment e.
ConnectReadEnvironment(e) ==
    /\ cpc = "env"
    /\ env' = e
    /\ config' = ReadEnvironment(config, e)
    /\ cpc' = IF config'.st = "ok" THEN "connect" ELSE "failed_parse"
    /\ UNCHANGED << dsn, npairs, given, portsOk, malformed, attempts >>

\* Connect, lines 157-168: the db argument is built from the host and the workload.
DbWithWorkload(c) ==
    LET workload_param == IF c.workload = << >> THEN << >> ELSE W_workload \o <<"=">> \o c.workload IN
    IF workload_param = << >> THEN c.host
    ELSE IF \E i \in 1..Len(c.host) : c.host[i] = "?"
    THEN c.host \o <<"&">> \o Tail(workload_param)
    ELSE c.host \o <<"?">> \o workload_param

\* A Connect that retries whatever the host.
RetryAnyHost(c) == TRUE

\* Connect, line 176: whether a failed connection is tried again.
RetryLoopback(c) == c.host = << >> \/ c.host = W_localhost

\* Connect, lines 174-176 and 184-187: the first mysql_real_connect.
ConnectFirst(ok) ==
    /\ cpc = "connect"
    /\ attempts' = << [host |-> config.host, db |-> DbWithWorkload(config), ok |-> ok] >>
    /\ cpc' = IF ok THEN "connected" ELSE IF RetryLoopback(config) THEN "retry" ELSE "failed_connect"
    /\ UNCHANGED << dsn, npairs, given, portsOk, malformed, env, config >>

\* Connect, lines 178-184: the second mysql_real_connect, to 127.0.0.1.
ConnectRetry(ok) ==
    /\ cpc = "retry"
    /\ attempts' = Append(attempts, [host |-> W_loopback, db |-> DbWithWorkload(config), ok |-> ok])
    /\ cpc' = IF ok THEN "connected" ELSE "failed_connect"
    /\ UNCHANGED << dsn, npairs, given, portsOk, malformed, env, config >>

ConnStep ==
    \/ \E p \in DsnPairs : AddPair(p)
    \/ ConnectInitFails
    \/ ConnectParseOptions
    \/ \E e \in Envs : ConnectReadEnvironment(e)
    \/ \E ok \in BOOLEAN : ConnectFirst(ok)
    \/ \E ok \in BOOLEAN : ConnectRetry(ok)

\* ------------------------------------------------------- outbound types
\* Number of columns whose types are converted.
MaxColumns == 2
\* Number of distinct type modifiers (decimal width and scale, child types).
MaxTypeInfo == 2

\* The kinds with no modifier, and the kinds that carry one.
SimpleTypeIds ==
    {"BOOLEAN", "TINYINT", "SMALLINT", "INTEGER", "BIGINT", "UTINYINT", "USMALLINT", "UINTEGER",
     "UBIGINT", "FLOAT", "DOUBLE", "BLOB", "DATE", "TIMESTAMP", "TIMESTAMP_TZ", "VARCHAR",
     "TIMESTAMP_SEC", "TIMESTAMP_MS", "TIMESTAMP_NS", "HUGEINT",
     "TIME", "TIME_TZ", "INTERVAL", "UUID", "BIT", "SQLNULL"}
NestedTypeIds == {"DECIMAL", "LIST", "STRUCT", "MAP", "UNION", "ENUM"}

\* LogicalType: the kind and its modifier (0: none).
LogicalTypes ==
    { [id |-> i, info |-> 0] : i \in SimpleTypeIds }
        \cup { [id |-> i, info |-> n] : i \in NestedTypeIds, n \in 1..MaxTypeInfo }

Simple(i) == [id |-> i, info |-> 0]

\* A ToMySQLType that turns a list into text.
ToMySQLTypeListAsText(input) ==
    IF input.id \in {"STRUCT", "MAP", "UNION"}
    THEN [st |-> "NotImplemented", type |-> input]
    ELSE IF input.id \in {"TIMESTAMP_SEC", "TIMESTAMP_MS", "TIMESTAMP_NS"}
    THEN [st |-> "ok", type |-> Simple("TIMESTAMP")]
    ELSE IF input.id = "HUGEINT"
    THEN [st |-> "ok", type |-> Simple("DOUBLE")]
    ELSE [st |-> "ok", type |-> Simple("VARCHAR")]

\* MySQLUtils::ToMySQLType: the type returned, or the NotImplementedException.
ToMySQLType(input) ==
    IF input.id \in {"BOOLEAN", "SMALLINT", "INTEGER", "BIGINT", "TINYINT", "UTINYINT", "USMALLINT",
                     "UINTEGER", "UBIGINT", "FLOAT", "DOUBLE", "BLOB", "DATE", "DECIMAL",
                     "TIMESTAMP", "TIMESTAMP_TZ", "VARCHAR"}
    THEN [st |-> "ok", type |-> input]
    ELSE IF input.id = "LIST"
    THEN [st |-> "NotImplemented", type |-> input]
    ELSE IF input.id \in {"STRUCT", "MAP", "UNION"}
    THEN [st |-> "NotImplemented", type |-> input]
    ELSE IF input.id \in {"TIMESTAMP_SEC", "TIMESTAMP_MS", "TIMESTAMP_NS"}
    THEN [st |-> "ok", type |-> Simple("TIMESTAMP")]
    ELSE IF input.id = "HUGEINT"
    THEN [st |-> "ok", type |-> Simple("DOUBLE")]
    ELSE [st |-> "ok", type |-> Simple("VARCHAR")]

VARIABLES
    columns,      \* the types handed to ToMySQLType, in order
    converted     \* what it returned for each, in order

tvars == << columns, converted >>

TypeInit ==
    /\ columns = << >>
    /\ converted = << >>

\* The type of the next column is converted; an exception ends the conversion.
ConvertColumn(input) ==
    /\ Len(columns) < MaxColumns
    /\ \A i \in 1..Len(converted) : converted[i].st = "ok"
    /\ columns' = Append(columns, input)
    /\ converted' = Append(converted, ToMySQLType(input))

TypeStep == \E input \in LogicalTypes : ConvertColumn(input)

\* ------------------------------------------------------- specifications
vars == << mvars, cvars, tvars >>

Init == MirrorInit /\ ConnInit /\ TypeInit

\* The catalog mirror; threads interleave freely.
Next == (\E t \in Threads : Step(t)) /\ UNCHANGED << cvars, tvars >>

Spec == Init /\ [][Next]_vars

\* The catalog mirror when calls do not overlap: a thread steps only while
\* every other thread is idle.
NextSeq ==
    /\ \E t \in Threads : (\A u \in Threads \ {t} : pc[u] = "idle") /\ Step(t)
    /\ UNCHANGED << cvars, tvars >>

SpecSeq == Init /\ [][NextSeq]_vars

\* MySQLUtils::Connect on a DSN.
NextConn == ConnStep /\ UNCHANGED << mvars, tvars >>

SpecConn == Init /\ [][NextConn]_vars

\* MySQLUtils::ToMySQLType on the columns of a table.
NextType == TypeStep /\ UNCHANGED << mvars, cvars >>

SpecType == Init /\ [][NextType]_vars

\* ------------------------------------------------- claims: catalog mirror
\* No call is in progress.
Quiet == \A t \in Threads : pc[t] = "idle"

\* The names LoadEntries creates.
DiscoveredNames == { Discovered[i] : i \in 1..Len(Discovered) }

\* C1: with no ClearEntries, LoadEntries is invoked at most once, whatever the
\* interleaving of the GetEntry and Scan calls.
C1_DiscoveryAtMostOnce == ("clear" \notin hist) => loads <= 1

\* C2: a GetEntry or Scan that returns has seen every discovered entry (no
\* CreateEntry, DropEntry, ClearEntries or failed discovery has taken place):
\* GetEntry finds each discovered name and Scan visits all of them.
C2_ReadersSeeAllEntries ==
    hist = {} =>
        /\ (ret.op = "GetEntry" /\ ret.arg \in DiscoveredNames) => ret.val = {ret.arg}
        /\ ret.op = "Scan" => DiscoveredNames \subseteq ret.val

\* A step in which a DropEntry call fails at its remote statement.
DropFailedStep ==
    /\ calls' = calls + 1
    /\ pc' = pc
    /\ ret'.op = "DropEntry"
    /\ ret'.thrown

\* C3: a DropEntry whose remote statement fails leaves entries and entry_map
\* as they were before the call.
C3_FailedDropKeepsEntry ==
    [][DropFailedStep => (entries' = entries /\ entry_map' = entry_map)]_vars

\* C3 witness: a DropEntry of a stored entry has failed, and the entry is there.
C3_Witness ==
    /\ Quiet
    /\ ret.op = "DropEntry"
    /\ ret.thrown
    /\ ret.arg \in entries
    /\ ret.arg \in entry_map

\* C4: when calls do not overlap, a ClearEntries leaves both maps empty and
\* is_loaded false; the GetEntry or Scan that follows invokes LoadEntries, and
\* LoadEntries is invoked once only between two ClearEntries.
C4_ClearThenDiscoverOnce ==
    /\ loads <= 1
    /\ (Quiet /\ ret.op = "ClearEntries") =>
           (entries = {} /\ entry_map = {} /\ ~is_loaded /\ loads = 0)
    /\ (Quiet /\ ret.op \in {"GetEntry", "Scan"}) => (is_loaded /\ loads = 1)

\* C4 witness: after a ClearEntries and the rediscovery that followed it, a
\* further Scan has returned the rediscovered entries without another discovery.
C4_Witness ==
    /\ Quiet
    /\ hist = {"clear", "clear_loaded"}
    /\ calls >= 4
    /\ ret.op = "Scan"
    /\ ret.val = DiscoveredNames
    /\ loads = 1

\* A step in which a GetEntry or Scan runs its critical section.
ReaderStep == \E t \in Threads : pc[t] = "lock" /\ pc'[t] = "idle"

\* A ClearEntries has emptied entry_map and not yet entries.
HalfCleared == \E u \in Threads : pc[u] = "clear_entries" /\ entries # {}

\* C5: ClearEntries is atomic for the readers: no GetEntry or Scan runs its
\* critical section on a state in which only one of the maps is emptied.
C5_ClearIsAtomic == [][ReaderStep => ~HalfCleared]_vars

C11_DropRemovesFromIndex ==
    (Quiet /\ ret.op = "DropEntry" /\ ~ret.thrown) =>
        /\ \A n \in EntryNames :
               Lower(n) = Lower(ret.arg) => Lookup(entries, entry_map, entries_ci, n) = NoEntry
        /\ \A n \in entry_map : EntriesFind(entries, entries_ci, n) # {}

\* A step in which LoadEntries throws out of a GetEntry or Scan.
LoadFailedStep == \E t \in Threads : pc[t] = "load" /\ pc'[t] = "idle"

\* C12: when calls do not overlap, is_loaded is true while LoadEntries runs; a
\* LoadEntries that throws leaves is_loaded true and both maps as they were;
\* and from then on, until a ClearEntries, the mirror stays loaded and no
\* GetEntry or Scan invokes LoadEntries again.
C12_FailedDiscoveryStaysLoaded ==
    /\ [](\A t \in Threads : pc[t] \in {"load", "load_entries"} => is_loaded)
    /\ [][LoadFailedStep =>
            (is_loaded' /\ entries' = entries /\ entry_map' = entry_map)]_vars
    /\ []((("loadfail" \in hist) /\ ("clear" \notin hist)) => (is_loaded /\ loads = 1))

\* C12 witness: discovery failed after it created its first entry, and a later
\* GetEntry and a later Scan have returned that entry without another discovery.
C12_Witness ==
    /\ Quiet
    /\ hist = {"loadfail"}
    /\ calls >= 3
    /\ ret.op = "Scan"
    /\ ~ret.thrown
    /\ ret.val = {Discovered[1]}
    /\ entries = {Discovered[1]}
    /\ is_loaded
    /\ loads = 1

\* --------------------------------------- claims: connection parameters
\* ParseConnectionParameters has returned a result.
Parsed == cpc \in {"connect", "retry", "connected", "failed_connect"}

\* ParseConnectionParameters has returned or thrown.
ParseEnded == Parsed \/ (cpc = "failed_parse")

\* What the claim expects of a field: the DSN's value, else the environment's, else the default.
ExpectedText(f) ==
    IF given[f].set THEN given[f].val
    ELSE IF env[EnvOf(f)].set THEN env[EnvOf(f)].val
    ELSE << >>

ExpectedPort ==
    IF given["port"].set THEN given["port"].num
    ELSE IF env["MYSQL_TCP_PORT"].set THEN env["MYSQL_TCP_PORT"].num
    ELSE 0

\* C7: in the result of ParseConnectionParameters on a well-formed DSN, each of
\* host, user, password, database, socket and port holds the DSN's value when
\* the DSN sets it, else the environment's value when the variable is set, else
\* its empty or zero default.
C7_EnvironmentIsFallback ==
    (Parsed /\ ~malformed) =>
        /\ config.host = ExpectedText("host")
        /\ config.user = ExpectedText("user")
        /\ config.passwd = ExpectedText("passwd")
        /\ config.db = ExpectedText("db")
        /\ config.unix_socket = ExpectedText("unix_socket")
        /\ config.port = ExpectedPort

\* C7 witness: with every environment variable set, a DSN that sets the host to
\* the empty text and gives no user has been parsed.
C7_Witness ==
    /\ Parsed
    /\ ~malformed
    /\ \A v \in EnvVars : env[v].set
    /\ given["host"].set
    /\ given["host"].val = << >>
    /\ ~given["user"].set
    /\ config.user = <<"U">>

\* C8: a DSN whose pairs are well-formed, read in an environment whose port (if
\* set) is a number, is accepted exactly when every port it gives, or the
\* environment's port when it gives none, lies in 0..65535.
C8_PortRange ==
    (ParseEnded /\ ~malformed /\ (env["MYSQL_TCP_PORT"].set => env["MYSQL_TCP_PORT"].numeric)) =>
        (Parsed <=>
            /\ portsOk
            /\ (~given["port"].set /\ env["MYSQL_TCP_PORT"].set) => env["MYSQL_TCP_PORT"].num \in 0..65535)

\* Whether the configured host is empty or "localhost".
LocalHost == config.host = << >> \/ config.host = W_localhost

\* C9: Connect makes at most two connection attempts; the second is made to
\* 127.0.0.1, only after the first failed and only for an empty or "localhost"
\* host; any other host fails after one attempt, and a failed second attempt fails.
C9_SingleLoopbackRetry ==
    /\ Len(attempts) <= 2
    /\ Len(attempts) >= 1 => attempts[1].host = config.host
    /\ Len(attempts) = 2 => (~attempts[1].ok /\ attempts[2].host = W_loopback /\ LocalHost)
    /\ cpc = "retry" => (Len(attempts) = 1 /\ ~attempts[1].ok /\ LocalHost)
    /\ cpc = "connected" => attempts[Len(attempts)].ok
    /\ cpc = "failed_connect" =>
           /\ \A i \in 1..Len(attempts) : ~attempts[i].ok
           /\ Len(attempts) = IF LocalHost THEN 2 ELSE 1
    /\ (Len(attempts) = 1 /\ ~attempts[1].ok /\ ~LocalHost) => cpc = "failed_connect"

\* C9 witness: for the host "localhost" the first attempt and the retry have failed.
C9_Witness ==
    /\ cpc = "failed_connect"
    /\ config.host = W_localhost
    /\ Len(attempts) = 2
    /\ attempts[2].host = W_loopback

\* ------------------------------------------------ claims: outbound types
\* C10: ToMySQLType throws for every list, struct, map and union type, and
\* returns a type for every other kind: the naive timestamp for the
\* second, millisecond and nanosecond timestamps, double for the 128-bit integer.
C10_CompositeTypesRejected ==
    /\ Len(converted) = Len(columns)
    /\ \A i \in 1..Len(columns) :
         /\ columns[i].id \in {"LIST", "STRUCT", "MAP", "UNION"} <=> converted[i].st # "ok"
         /\ columns[i].id \in {"TIMESTAMP_SEC", "TIMESTAMP_MS", "TIMESTAMP_NS"} =>
                converted[i].type = Simple("TIMESTAMP")
         /\ columns[i].id = "HUGEINT" => converted[i].type = Simple("DOUBLE")

\* C10 witness: a list type has been rejected after a 128-bit integer was mapped.
C10_Witness ==
    /\ Len(columns) = 2
    /\ columns[1].id = "HUGEINT"
    /\ columns[2].id = "LIST"
    /\ converted[2].st = "NotImplemented"

====
